---- MODULE Spec2Model ----
(***************************************************************************)
(* Shader MIDI Player (Seakuh/SHADERS).                                    *)
(*                                                                         *)
(* Two generations of the browser application are modelled:                *)
(*   - src/main.js: ShaderManager, MIDIController, ShaderRenderer and      *)
(*     ShaderMIDIApp of the first version (notes 60/59, CC1..CC4, one      *)
(*     THREE.Clock read twice per frame);                                  *)
(*   - src/unnamed/part_001: the later version, of which the mask canvas   *)
(*     and its undo history are modelled.                                  *)
(*                                                                         *)
(* Numbers.  A control change carries a raw value 0..127; WebMidi hands    *)
(* the handler value = raw / 127.  Every effect value is kept here as an   *)
(* integer count of 1/127 units, so value = raw, value * 360 = raw * 360   *)
(* and the defaults 0.0 and 1.0 are 0 and 127: the arithmetic of the       *)
(* handlers is exact in these units.                                       *)
(***************************************************************************)
EXTENDS Integers, Sequences, FiniteSets, TLC

(* ------------------------------ bounds -------------------------------- *)

\* the largest number of shader files the loader finds
MaxShaders == 3

(* ------------------------- program constants -------------------------- *)

\* main.js:466  Math.floor((data / 127) * maxShaders)
NoteDivisor == 127
\* 1.0 in units of 1/127 (the normalised value of raw 127)
One == 127
\* main.js:189  const hue = value * 360
HueDegrees == 360

(* ---------------------------- input sets ------------------------------ *)

\* note numbers tried: the ends of 0..127, the two mapped notes, some others
Notes == {0, 42, 59, 60, 64, 85, 126, 127}
\* controller numbers tried: the four mapped ones and an unmapped one
Controllers == {1, 2, 3, 4, 5}
\* raw controller values tried
RawValues == {0, 64, 127}
\* e.key of the keydown events tried
Keys == {"ArrowRight", "n", "N", "ArrowLeft", "p", "P", "h", "H", "f", "x"}
\* the MIDI ports of the machine: two inputs and one output
InputPorts == {"in1", "in2"}
OutputPorts == {"out1"}
Ports == InputPorts \cup OutputPorts

Params == {"hue", "saturation", "lightness", "monochrome"}
UniformNames == {"u_hue", "u_saturation", "u_lightness", "u_monochrome"}

NoMaterial == [shader |-> "none"]
NoOp == [kind |-> "none"]

VARIABLES
    (* ---- src/main.js ---- *)
    shaders,          \* ShaderManager.shaders: the shader names, in load order
    currentIndex,     \* ShaderManager.currentIndex (0-based)
    globalUniforms,   \* ShaderRenderer.globalUniforms
    material,         \* ShaderRenderer.material: NoMaterial, or the uniforms
    uiShader,         \* text of #current-shader
    infoVisible,      \* ShaderMIDIApp.infoVisible
    fullscreen,       \* document.fullscreenElement is set
    lastOp,           \* history: the last event handled and the state before it
    keyLog,           \* history: the run of keyboard navigation presses
    lastSet,          \* history: the value last sent for each effect parameter
    pc,               \* where ShaderMIDIApp.init() stands
    midiInputs,       \* WebMidi.inputs: the connected input ports, in order
    midiOutputs,      \* the connected output ports
    connected,        \* MIDIController.connected
    uiMidiDevice,     \* text of #midi-device
    listening,        \* the inputs that hold the app's noteon/controlchange listeners
    keyboardInstalled,\* the keydown listener is installed
    animating,        \* the requestAnimationFrame loop runs
    midiOutcome,      \* history: how WebMidi.enable() ended
    inputsAtInit,     \* history: WebMidi.inputs when enable() resolved
    clock,            \* ShaderRenderer.clock (THREE.Clock)
    now,              \* performance.now(), in ticks
    lastRenderAt,     \* history: when render() last called getDelta()
    (* ---- src/unnamed/part_001: the mask of the later version ---- *)
    maskCanvas,       \* the pixel of ShaderRenderer.maskCanvas (a 1 x 1 window)
    maskHistory,      \* ShaderRenderer.maskHistory: the snapshots, oldest first
    editMode,         \* ShaderMIDIApp.editMode
    isDrawing,        \* ShaderMIDIApp.isDrawing
    maskDirty,        \* ShaderMIDIApp.maskDirty
    u_hasMask,        \* material.uniforms.u_hasMask.value
    currentEditTool,  \* ShaderMIDIApp.currentEditTool
    polygonPoints,    \* ShaderMIDIApp.polygonPoints.length
    maskOp,           \* history: the last mask event and the state before it
    maskEvents,       \* history: how many mask events were handled
    actLog,           \* history: the canvas before each action of the current run
    undone,           \* history: the undos that followed the current run
    (* ---- src/unnamed/part_001: the perspective quad ---- *)
    perspCorners,     \* u_perspTL, u_perspTR, u_perspBR, u_perspBL, in grid units
    perspActive,      \* u_perspActive
    frame,            \* history: the frame drawn with the present corners, if any
    (* ---- src/unnamed/part_003: VideoInputManager, and its renderer ---- *)
    video,            \* the manager's fields, and the streams, elements and textures made
    pending,          \* the startWebcam() calls waiting for getUserMedia
    catching,         \* the startWebcam() calls waiting for updateDeviceList() in catch
    rendererTexture,  \* ShaderRenderer.videoTexture: 0 is null
    u_hasVideo,       \* material.uniforms.u_hasVideo.value
    videoCalls,       \* history: how many camera starts were made
    videoFiles,       \* history: how many video files were loaded
    lastVideoOp,      \* history: the last video event
    (* ---- src/unnamed/part_001: MIDIController of the later version ---- *)
    midi2,            \* WebMidi's ports, currentInput, the selector, the handlers attached
    midi2Events,      \* history: how many port and selector events were handled
    lastMidi2Op       \* history: the last MIDI event of the later version

navVars == <<shaders, currentIndex, globalUniforms, material, uiShader,
             infoVisible, fullscreen, lastOp, keyLog, lastSet>>

midiVars == <<pc, midiInputs, midiOutputs, connected, uiMidiDevice, listening,
              keyboardInstalled, animating, midiOutcome, inputsAtInit>>

clockVars == <<clock, now, lastRenderAt>>

maskVars == <<maskCanvas, maskHistory, editMode, isDrawing, maskDirty, u_hasMask,
              currentEditTool, polygonPoints, maskOp, maskEvents, actLog, undone>>

quadVars == <<perspCorners, perspActive, frame>>

videoVars == <<video, pending, catching, rendererTexture, u_hasVideo, videoCalls,
               videoFiles, lastVideoOp>>

midi2Vars == <<midi2, midi2Events, lastMidi2Op>>

vars == <<navVars, midiVars, clockVars, maskVars, quadVars, videoVars, midi2Vars>>

(* ===================== src/main.js: ShaderManager ===================== *)

NumShaders == Len(shaders)

\* the names the loader gives n shader files
ShaderNames(n) == [i \in 1..n |-> i]

\* getCurrentShader(): null without shaders, else the shader at currentIndex
getCurrentShader ==
    IF NumShaders = 0 THEN "null" ELSE shaders[currentIndex + 1]

\* a nextShader() that stops at the last shader instead of wrapping
nextShaderWrong == IF NumShaders = 0 THEN currentIndex
                   ELSE IF currentIndex + 1 < NumShaders THEN currentIndex + 1
                        ELSE currentIndex

\* nextShader(): the new currentIndex
nextShader ==
    IF NumShaders = 0 THEN currentIndex
    ELSE (currentIndex + 1) % NumShaders

\* previousShader(): the new currentIndex
previousShader ==
    IF NumShaders = 0 THEN currentIndex
    ELSE (currentIndex - 1 + NumShaders) % NumShaders

\* setShaderByIndex(index): the new currentIndex; out of range changes nothing
setShaderByIndex(index) ==
    IF index >= 0 /\ index < NumShaders THEN index ELSE currentIndex

(* ===================== src/main.js: ShaderRenderer ==================== *)

\* the constructor's globalUniforms
DefaultUniforms ==
    [u \in UniformNames |->
        CASE u = "u_hue" -> 0
          [] u = "u_saturation" -> One
          [] u = "u_lightness" -> One
          [] u = "u_monochrome" -> 0]

\* the key `u_${param}`
UniformOf(param) ==
    CASE param = "hue" -> "u_hue"
      [] param = "saturation" -> "u_saturation"
      [] param = "lightness" -> "u_lightness"
      [] param = "monochrome" -> "u_monochrome"

\* a createShaderMaterial that starts every material from the default effects
createShaderMaterialDefaults(shader, gu) ==
    [shader |-> shader, uniforms |-> DefaultUniforms,
     iTime |-> 0, iTimeDelta |-> 0, iFrame |-> 0]

\* createShaderMaterial: a new material whose effect uniforms are copied from
\* globalUniforms and whose time uniforms start at 0
createShaderMaterial(shader, gu) ==
    [shader |-> shader, uniforms |-> gu,
     iTime |-> 0, iTimeDelta |-> 0, iFrame |-> 0]

\* updateGlobalParameter on the material: only when a material exists
MaterialWith(mat, param, value) ==
    IF mat = NoMaterial THEN mat
    ELSE [mat EXCEPT !.uniforms[UniformOf(param)] = value]

(* ====================== src/main.js: ShaderMIDIApp ==================== *)

\* the index handleShaderChange(action, data) leaves in currentIndex
IndexAfter(action, data) ==
    CASE action = "next" -> nextShader
      [] action = "prev" -> previousShader
      [] action = "index" ->
            setShaderByIndex((data * NumShaders) \div NoteDivisor)
      [] OTHER -> currentIndex

\* handleShaderChange(action, data) then loadCurrentShader(): the shader at
\* the new index is loaded into a fresh material and named in the overlay
handleShaderChange(action, data) ==
    LET idx == IndexAfter(action, data) IN
    /\ currentIndex' = idx
    /\ IF NumShaders = 0
       THEN UNCHANGED <<material, uiShader>>
       ELSE /\ material' = createShaderMaterial(shaders[idx + 1], globalUniforms)
            /\ uiShader' = shaders[idx + 1]
    /\ UNCHANGED <<shaders, globalUniforms>>

\* handleParameterChange(param, value) -> renderer.updateGlobalParameter
handleParameterChange(param, value) ==
    /\ globalUniforms' = [globalUniforms EXCEPT ![UniformOf(param)] = value]
    /\ material' = MaterialWith(material, param, value)
    /\ UNCHANGED <<shaders, currentIndex, uiShader>>

(* ===================== src/main.js: MIDIController ==================== *)

\* mappings
shaderNextNote == 60
shaderPrevNote == 59
hueCC == 1
saturationCC == 2
lightnessCC == 3
monochromeCC == 4

\* a handleNoteOn that treats every note as a direct selection
NoteActionAllIndex(note) == "index"

\* handleNoteOn(note): the action and data given to onShaderChange
NoteAction(note) ==
    IF note = shaderNextNote THEN "next"
    ELSE IF note = shaderPrevNote THEN "prev"
    ELSE "index"

\* a handleCC whose controller numbers are off by one
CCTargetShifted(cc, raw) ==
    CASE cc = hueCC -> [param |-> "hue", value |-> raw * HueDegrees]
      [] cc = saturationCC -> [param |-> "saturation", value |-> raw]
      [] cc = lightnessCC -> [param |-> "monochrome", value |-> raw]
      [] cc = monochromeCC -> [param |-> "lightness", value |-> raw]
      [] OTHER -> [param |-> "none", value |-> 0]

\* handleCC(cc, value): the parameter and value given to onParameterChange,
\* or "none" for a controller that is not mapped
CCTarget(cc, raw) ==
    CASE cc = hueCC -> [param |-> "hue", value |-> raw * HueDegrees]
      [] cc = saturationCC -> [param |-> "saturation", value |-> raw]
      [] cc = lightnessCC -> [param |-> "lightness", value |-> raw]
      [] cc = monochromeCC -> [param |-> "monochrome", value |-> raw]
      [] OTHER -> [param |-> "none", value |-> 0]

\* what the state was before an event, kept with the event in lastOp
Before == [idx |-> currentIndex, gu |-> globalUniforms, mat |-> material]

\* a noteon message on a listened-to input: handleNoteOn(note)
NoteOn(port, note) ==
    /\ port \in listening
    /\ handleShaderChange(NoteAction(note), note)
    /\ lastOp' = [kind |-> "noteon", num |-> note, val |-> 0, key |-> "",
                  action |-> NoteAction(note), before |-> Before]
    /\ keyLog' = <<>>
    /\ UNCHANGED <<infoVisible, fullscreen, lastSet>>

\* a controlchange message on a listened-to input: handleCC(cc, raw / 127)
ControlChange(port, cc, raw) ==
    LET t == CCTarget(cc, raw) IN
    /\ port \in listening
    /\ IF t.param = "none"
       THEN UNCHANGED <<shaders, currentIndex, globalUniforms, material, uiShader>>
       ELSE handleParameterChange(t.param, t.value)
    /\ lastSet' = IF t.param = "none" THEN lastSet
                  ELSE [lastSet EXCEPT ![UniformOf(t.param)] = t.value]
    /\ lastOp' = [kind |-> "cc", num |-> cc, val |-> raw, key |-> "",
                  action |-> "none", before |-> Before]
    /\ keyLog' = <<>>
    /\ UNCHANGED <<infoVisible, fullscreen>>

(* ================ src/main.js: setupKeyboardControls ================== *)

\* e.key.toLowerCase()
ToLowerCase(key) ==
    CASE key = "ArrowRight" -> "arrowright"
      [] key = "ArrowLeft" -> "arrowleft"
      [] key = "N" -> "n"
      [] key = "P" -> "p"
      [] key = "H" -> "h"
      [] OTHER -> key

\* the switch of the keydown listener: the shader action of a key
KeyAction(key) ==
    LET k == ToLowerCase(key) IN
    IF k \in {"arrowright", "n"} THEN "next"
    ELSE IF k \in {"arrowleft", "p"} THEN "prev"
    ELSE "none"

\* the run of navigation presses, cut to the last MaxShaders of them
Logged(log, entry) ==
    LET l == Append(log, entry) IN
    IF Len(l) > MaxShaders THEN Tail(l) ELSE l

\* the keydown listener
KeyDown(key) ==
    LET a == KeyAction(key) k == ToLowerCase(key) IN
    /\ keyboardInstalled
    /\ IF a \in {"next", "prev"}
       THEN /\ handleShaderChange(a, 0)
            /\ keyLog' = Logged(keyLog, [dir |-> a, from |-> currentIndex])
       ELSE /\ UNCHANGED <<shaders, currentIndex, globalUniforms, material, uiShader>>
            /\ keyLog' = <<>>
    /\ infoVisible' = IF k = "h" THEN ~infoVisible ELSE infoVisible
    /\ fullscreen' = IF k = "f" THEN ~fullscreen ELSE fullscreen
    /\ lastOp' = [kind |-> "key", num |-> 0, val |-> 0, key |-> key,
                  action |-> a, before |-> Before]
    /\ UNCHANGED lastSet

(* =================== src/main.js: the render clock ==================== *)

\* new THREE.Clock(): autoStart, not yet running
NewClock == [running |-> FALSE, startTime |-> 0, oldTime |-> 0, elapsedTime |-> 0]

\* THREE.Clock.getDelta() read at time t: the first call starts the clock and
\* returns 0; a later call returns the time since the previous call of
\* getDelta, moves oldTime to t and adds the difference to elapsedTime
getDelta(c, t) ==
    IF ~c.running
    THEN [clock |-> [running |-> TRUE, startTime |-> t, oldTime |-> t,
                     elapsedTime |-> 0],
          value |-> 0]
    ELSE [clock |-> [c EXCEPT !.oldTime = t,
                              !.elapsedTime = @ + (t - c.oldTime)],
          value |-> t - c.oldTime]

\* THREE.Clock.getElapsedTime() read at time t: calls getDelta() and returns
\* elapsedTime
getElapsedTime(c, t) ==
    LET d == getDelta(c, t) IN
    [clock |-> d.clock, value |-> d.clock.elapsedTime]

\* ShaderRenderer.render(): nothing without a material; else getElapsedTime()
\* read at `now`, then getDelta() read `gap` ticks later, then the three time
\* uniforms are written
render(gap) ==
    IF material = NoMaterial
    THEN UNCHANGED <<material, clock, now, lastRenderAt>>
    ELSE LET e == getElapsedTime(clock, now)
             d == getDelta(e.clock, now + gap)
         IN  /\ material' = [material EXCEPT !.iTime = e.value,
                                             !.iTimeDelta = d.value,
                                             !.iFrame = @ + 1]
             /\ clock' = d.clock
             /\ now' = now + gap
             /\ lastRenderAt' = now + gap

(* ================ src/main.js: MIDIController.init ==================== *)

\* input.name
PortName(p) == p

\* the text #midi-device holds before any script writes it
NotConnectedText == "Not connected"

IsInput(p) == p \in InputPorts

\* a sequence without the element p
Without(seq, p) == SelectSeq(seq, LAMBDA x : x # p)

\* the set of elements of a sequence
Range(seq) == {seq[i] : i \in 1..Len(seq)}

\* an init() that connects to the last input of the list
FirstInputLast(ins) == ins[Len(ins)]

\* the input init() connects to when WebMidi.inputs is not empty
FirstInput(ins) == ins[1]

\* connectToInput(input): connected, the name in the overlay, and the four
\* listeners added to the input
connectToInput(input) ==
    /\ connected' = TRUE
    /\ uiMidiDevice' = PortName(input)
    /\ listening' = listening \cup {input}

\* an init() without the try/catch
midiInitThrowsUncaught(enableOk) == ~enableOk

\* whether MIDIController.init() rejects when WebMidi.enable() fails: the
\* try/catch around its whole body logs the error and lets init() resolve
midiInitThrows(enableOk) == FALSE

\* the WebMidi 'connected' and 'disconnected' listeners exist once enable()
\* has resolved
PortListenersInstalled == midiOutcome \in {"noInputs", "connected"}

(* ================== src/main.js: ShaderMIDIApp.init =================== *)

\* init() up to its second await: loadShaderList() found n files and returned
\* ok; without shaders init() returns, else the first shader is loaded and
\* MIDIController.init() calls WebMidi.enable()
ShadersLoaded(n, ok) ==
    /\ pc = "loading"
    /\ shaders' = ShaderNames(n)
    /\ IF ok /\ n > 0
       THEN /\ material' = createShaderMaterial(ShaderNames(n)[currentIndex + 1],
                                                globalUniforms)
            /\ uiShader' = ShaderNames(n)[currentIndex + 1]
            /\ pc' = "enabling"
       ELSE /\ UNCHANGED <<material, uiShader>>
            /\ pc' = "stopped"
    /\ UNCHANGED <<currentIndex, globalUniforms, infoVisible, fullscreen,
                   lastOp, keyLog, lastSet>>
    /\ UNCHANGED <<midiInputs, midiOutputs, connected, uiMidiDevice, listening,
                   keyboardInstalled, animating, midiOutcome, inputsAtInit>>
    /\ UNCHANGED <<clockVars, maskVars, quadVars, videoVars, midi2Vars>>

\* the rest of init() after `await this.midiController.init()`:
\* setupKeyboardControls() and animate(), whose first call renders a frame
FinishInit(enableOk, gap) ==
    IF midiInitThrows(enableOk)
    THEN /\ pc' = "stopped"
         /\ UNCHANGED <<keyboardInstalled, animating, material, clock, now,
                        lastRenderAt>>
    ELSE /\ pc' = "running"
         /\ keyboardInstalled' = TRUE
         /\ animating' = TRUE
         /\ render(gap)

\* WebMidi.enable() resolved: connect to the first input if there is one,
\* install the port listeners, then the rest of init()
EnableResolved(gap) ==
    /\ pc = "enabling"
    /\ inputsAtInit' = midiInputs
    /\ IF Len(midiInputs) > 0
       THEN /\ connectToInput(FirstInput(midiInputs))
            /\ midiOutcome' = "connected"
       ELSE /\ UNCHANGED <<connected, uiMidiDevice, listening>>
            /\ midiOutcome' = "noInputs"
    /\ FinishInit(TRUE, gap)
    /\ UNCHANGED <<shaders, currentIndex, globalUniforms, uiShader, infoVisible,
                   fullscreen, lastOp, keyLog, lastSet, midiInputs, midiOutputs>>
    /\ UNCHANGED <<maskVars, quadVars, videoVars, midi2Vars>>

\* WebMidi.enable() rejected (no Web MIDI, permission denied): the catch block
\* logs, no listener is installed, then the rest of init()
EnableRejected(gap) ==
    /\ pc = "enabling"
    /\ midiOutcome' = "failed"
    /\ FinishInit(FALSE, gap)
    /\ UNCHANGED <<shaders, currentIndex, globalUniforms, uiShader, infoVisible,
                   fullscreen, lastOp, keyLog, lastSet, midiInputs, midiOutputs,
                   connected, uiMidiDevice, listening, inputsAtInit>>
    /\ UNCHANGED <<maskVars, quadVars, videoVars, midi2Vars>>

\* a port is plugged in; with the port listeners installed the 'connected'
\* listener connects to it when it is an input and nothing is connected
PortConnected(p) ==
    /\ p \notin Range(midiInputs) \cup midiOutputs
    /\ midiInputs' = IF IsInput(p) THEN Append(midiInputs, p) ELSE midiInputs
    /\ midiOutputs' = IF IsInput(p) THEN midiOutputs ELSE midiOutputs \cup {p}
    /\ IF PortListenersInstalled /\ IsInput(p) /\ ~connected
       THEN connectToInput(p)
       ELSE UNCHANGED <<connected, uiMidiDevice, listening>>
    /\ UNCHANGED <<pc, keyboardInstalled, animating, midiOutcome, inputsAtInit>>
    /\ UNCHANGED navVars
    /\ UNCHANGED clockVars
    /\ UNCHANGED <<maskVars, quadVars, videoVars, midi2Vars>>

\* what the 'disconnected' listener leaves in connected and #midi-device
disconnected(p) ==
    /\ connected' = FALSE
    /\ uiMidiDevice' = NotConnectedText

\* a port is unplugged: it leaves WebMidi.inputs and its Input object, with
\* the listeners it held, is gone; with the port listeners installed the
\* 'disconnected' listener runs, whatever the port
PortDisconnected(p) ==
    /\ p \in Range(midiInputs) \cup midiOutputs
    /\ midiInputs' = Without(midiInputs, p)
    /\ midiOutputs' = midiOutputs \ {p}
    /\ listening' = listening \ {p}
    /\ IF PortListenersInstalled
       THEN disconnected(p)
       ELSE UNCHANGED <<connected, uiMidiDevice>>
    /\ UNCHANGED <<pc, keyboardInstalled, animating, midiOutcome, inputsAtInit>>
    /\ UNCHANGED navVars
    /\ UNCHANGED clockVars
    /\ UNCHANGED <<maskVars, quadVars, videoVars, midi2Vars>>

(* ========= src/unnamed/part_001: the mask and its undo history ======== *)

\* this.maxHistory = 10
maxHistory == 10

\* a pixel of the mask canvas: its red channel and its alpha
Transparent == [r |-> 0, a |-> 0]
White == [r |-> 255, a |-> 255]
Black == [r |-> 0, a |-> 255]

\* a saveToHistory() that never drops a snapshot
saveToHistoryNoLimit(history, canvas) == Append(history, canvas)

\* saveToHistory(): push a snapshot of the canvas; beyond maxHistory entries
\* shift() drops the oldest
saveToHistory(history, canvas) ==
    LET pushed == Append(history, canvas) IN
    IF Len(pushed) > maxHistory THEN Tail(pushed) ELSE pushed

\* invertMask(): 255 - r, g, b of every pixel; alpha is left alone
invertMask(canvas) == [canvas EXCEPT !.r = 255 - @]

\* drawOnMask(x, y, brushSize, erase): an opaque black or white disc, which
\* covers the pixel of a 1 x 1 window
drawOnMask(erase) == IF erase THEN Black ELSE White

\* cancelPolygon(): no points left
cancelPolygon == polygonPoints' = 0

\* the last ten entries of a sequence
LastTen(seq) == IF Len(seq) <= 10 THEN seq ELSE SubSeq(seq, Len(seq) - 9, Len(seq))

\* what the state was before a mask event
MaskBefore == [canvas |-> maskCanvas, history |-> maskHistory,
               dirty |-> maskDirty, hasMask |-> u_hasMask, editMode |-> editMode]

\* the most mask events of one run
MaxMaskEvents == 11

\* a mask event is counted and remembered; the first version's state is not
\* touched by it
MaskEvent(kind, saved) ==
    /\ maskEvents < MaxMaskEvents
    /\ maskOp' = [kind |-> kind, saved |-> saved, before |-> MaskBefore]
    /\ maskEvents' = maskEvents + 1
    /\ actLog' = IF ~saved THEN actLog
                 ELSE IF undone > 0 THEN <<maskCanvas>>
                 ELSE LastTen(Append(actLog, maskCanvas))
    /\ undone' = IF saved THEN 0
                 ELSE IF kind = "undo" THEN undone + 1
                 ELSE undone
    /\ UNCHANGED <<navVars, midiVars, clockVars, quadVars, videoVars, midi2Vars>>

\* drawAtPosition(x, y, restore): draw, mark the mask dirty, show the mask
drawAtPosition(restore) ==
    /\ maskCanvas' = drawOnMask(~restore)
    /\ maskDirty' = TRUE
    /\ u_hasMask' = TRUE

\* the clear button, or the C key in edit mode: clearMask() saves and fills
\* white, then the mask is clean and shown only in edit mode
ClearMask(viaKey) ==
    /\ viaKey => editMode
    /\ maskHistory' = saveToHistory(maskHistory, maskCanvas)
    /\ maskCanvas' = White
    /\ maskDirty' = FALSE
    /\ u_hasMask' = editMode
    /\ MaskEvent("clear", TRUE)
    /\ UNCHANGED <<editMode, isDrawing, currentEditTool, polygonPoints>>

\* the invert button, or the I key in edit mode
InvertMask(viaKey) ==
    /\ viaKey => editMode
    /\ maskHistory' = saveToHistory(maskHistory, maskCanvas)
    /\ maskCanvas' = invertMask(maskCanvas)
    /\ MaskEvent("invert", TRUE)
    /\ UNCHANGED <<editMode, isDrawing, maskDirty, u_hasMask, currentEditTool,
                   polygonPoints>>

\* an undoMask() that takes the oldest snapshot instead of the newest
undoMaskOldest(history, canvas) ==
    IF Len(history) = 0
    THEN [ok |-> FALSE, canvas |-> canvas, history |-> history]
    ELSE [ok |-> TRUE, canvas |-> history[1], history |-> Tail(history)]

\* undoMask(): false with an empty history; else pop() the newest snapshot
\* and put it on the canvas
undoMask(history, canvas) ==
    IF Len(history) = 0
    THEN [ok |-> FALSE, canvas |-> canvas, history |-> history]
    ELSE [ok |-> TRUE, canvas |-> history[Len(history)],
          history |-> SubSeq(history, 1, Len(history) - 1)]

\* the undo button, or the Z key in edit mode: after an undo the mask is
\* dirty while snapshots remain
UndoMask(viaKey) ==
    LET u == undoMask(maskHistory, maskCanvas) IN
    /\ viaKey => editMode
    /\ maskCanvas' = u.canvas
    /\ maskHistory' = u.history
    /\ maskDirty' = IF u.ok THEN Len(u.history) > 0 ELSE maskDirty
    /\ MaskEvent("undo", FALSE)
    /\ UNCHANGED <<editMode, isDrawing, u_hasMask, currentEditTool, polygonPoints>>

\* closePolygon(): with fewer than three points nothing happens; else the
\* canvas is saved and the polygon filled black, which covers the pixel
\* unless the polygon is degenerate
closePolygon(covers) ==
    IF polygonPoints < 3
    THEN UNCHANGED <<maskHistory, maskCanvas, maskDirty, u_hasMask, polygonPoints>>
    ELSE /\ maskHistory' = saveToHistory(maskHistory, maskCanvas)
         /\ maskCanvas' = IF covers THEN Black ELSE maskCanvas
         /\ maskDirty' = TRUE
         /\ u_hasMask' = TRUE
         /\ polygonPoints' = 0

\* the close button, or Enter with the polygon tool in edit mode
ClosePolygon(viaKey, covers) ==
    /\ viaKey => (editMode /\ currentEditTool = "polygon")
    /\ closePolygon(covers)
    /\ MaskEvent("polygon", polygonPoints >= 3)
    /\ UNCHANGED <<editMode, isDrawing, currentEditTool>>

\* the cancel button, or Escape with polygon points in edit mode
CancelPolygon(viaKey) ==
    /\ viaKey => (editMode /\ currentEditTool = "polygon" /\ polygonPoints > 0)
    /\ cancelPolygon
    /\ MaskEvent("cancel", FALSE)
    /\ UNCHANGED <<maskCanvas, maskHistory, editMode, isDrawing, maskDirty,
                   u_hasMask, currentEditTool>>

\* the tool buttons, or the B and G keys in edit mode: setEditTool(tool)
SetEditTool(viaKey, tool) ==
    /\ viaKey => editMode
    /\ currentEditTool' = tool
    /\ polygonPoints' = IF tool # "polygon" THEN 0 ELSE polygonPoints
    /\ MaskEvent("tool", FALSE)
    /\ UNCHANGED <<maskCanvas, maskHistory, editMode, isDrawing, maskDirty, u_hasMask>>

\* toggleEditMode(): the E key, CC60 above 0.5, or Escape in edit mode with
\* no polygon under way; leaving edit mode selects the brush and drops the
\* polygon; a clean mask is shown only in edit mode
ToggleEditMode ==
    /\ editMode' = ~editMode
    /\ IF editMode
       THEN /\ currentEditTool' = "brush"
            /\ polygonPoints' = 0
       ELSE UNCHANGED <<currentEditTool, polygonPoints>>
    /\ u_hasMask' = IF ~maskDirty THEN ~editMode ELSE u_hasMask
    /\ MaskEvent("toggle", FALSE)
    /\ UNCHANGED <<maskCanvas, maskHistory, isDrawing, maskDirty>>

\* the most points a polygon is given before it is closed or cancelled
MaxPolygonPoints == 3

\* mousedown on the canvas in edit mode: with the polygon tool a click near
\* the first of three or more points closes the polygon and any other click
\* adds a point; with the brush the canvas is saved and a stroke begins
MouseDown(shiftKey, near, covers) ==
    /\ editMode
    /\ IF currentEditTool = "polygon"
       THEN /\ IF polygonPoints >= 3 /\ near
               THEN closePolygon(covers)
               ELSE /\ polygonPoints < MaxPolygonPoints
                    /\ polygonPoints' = polygonPoints + 1
                    /\ UNCHANGED <<maskHistory, maskCanvas, maskDirty, u_hasMask>>
            /\ MaskEvent("click", polygonPoints >= 3 /\ near)
            /\ UNCHANGED isDrawing
       ELSE /\ maskHistory' = saveToHistory(maskHistory, maskCanvas)
            /\ isDrawing' = TRUE
            /\ drawAtPosition(shiftKey)
            /\ MaskEvent("stroke", TRUE)
            /\ UNCHANGED polygonPoints
    /\ UNCHANGED <<editMode, currentEditTool>>

\* mousemove with the button down: the brush goes on drawing
MouseMove(shiftKey) ==
    /\ editMode
    /\ isDrawing
    /\ currentEditTool = "brush"
    /\ drawAtPosition(shiftKey)
    /\ MaskEvent("move", FALSE)
    /\ UNCHANGED <<maskHistory, editMode, isDrawing, currentEditTool, polygonPoints>>

\* mouseup, mouseleave or touchend: the stroke ends
MouseUp ==
    /\ isDrawing
    /\ isDrawing' = FALSE
    /\ MaskEvent("up", FALSE)
    /\ UNCHANGED <<maskCanvas, maskHistory, editMode, maskDirty, u_hasMask,
                   currentEditTool, polygonPoints>>

\* touchstart in edit mode: the canvas is saved and a black stroke begins,
\* whatever the tool
TouchStart ==
    /\ editMode
    /\ maskHistory' = saveToHistory(maskHistory, maskCanvas)
    /\ isDrawing' = TRUE
    /\ drawAtPosition(FALSE)
    /\ MaskEvent("touch", TRUE)
    /\ UNCHANGED <<editMode, currentEditTool, polygonPoints>>

\* touchmove during a stroke
TouchMove ==
    /\ editMode
    /\ isDrawing
    /\ drawAtPosition(FALSE)
    /\ MaskEvent("touchmove", FALSE)
    /\ UNCHANGED <<maskHistory, editMode, isDrawing, currentEditTool, polygonPoints>>

\* the state the constructors leave: initMaskCanvas() calls clearMask(), which
\* saves the new, still transparent canvas and then fills it white
MaskConstructed ==
    /\ maskCanvas = White
    /\ maskHistory = saveToHistory(<<>>, Transparent)
    /\ editMode = FALSE
    /\ isDrawing = FALSE
    /\ maskDirty = FALSE
    /\ u_hasMask = FALSE
    /\ currentEditTool = "brush"
    /\ polygonPoints = 0
    /\ maskOp = [kind |-> "none", saved |-> FALSE]
    /\ maskEvents = 0
    /\ actLog = <<>>
    /\ undone = 0

(* ========== src/unnamed/part_001: the perspective quad (GLSL) ========= *)

\* the screen is a grid of (GridMax + 1) x (GridMax + 1) positions; a
\* coordinate c stands for c / GridMax of the width or height.  The sign of a
\* cross product does not depend on the unit.
GridMax == 2

Grid == (0..GridMax) \X (0..GridMax)

CornerNames == {"tl", "tr", "br", "bl"}

\* the corners of the constructor and of resetPerspective()
DefaultCorners ==
    [tl |-> <<0, 0>>, tr |-> <<GridMax, 0>>,
     br |-> <<GridMax, GridMax>>, bl |-> <<0, GridMax>>]

\* crossSign(a, b, p)
crossSign(a, b, p) ==
    (b[1] - a[1]) * (p[2] - a[2]) - (b[2] - a[2]) * (p[1] - a[1])

\* a pointInQuad that asks for one strict sign on every edge
pointInQuadStrict(p, tl, tr, br, bl) ==
    LET d == <<crossSign(tl, tr, p), crossSign(tr, br, p),
               crossSign(br, bl, p), crossSign(bl, tl, p)>> IN
    (\A i \in 1..4 : d[i] > 0) \/ (\A i \in 1..4 : d[i] < 0)

\* pointInQuad(p, tl, tr, br, bl)
pointInQuad(p, tl, tr, br, bl) ==
    LET d1 == crossSign(tl, tr, p)
        d2 == crossSign(tr, br, p)
        d3 == crossSign(br, bl, p)
        d4 == crossSign(bl, tl, p)
        hasNeg == (d1 < 0) \/ (d2 < 0) \/ (d3 < 0) \/ (d4 < 0)
        hasPos == (d1 > 0) \/ (d2 > 0) \/ (d3 > 0) \/ (d4 > 0)
    IN ~(hasNeg /\ hasPos)

\* no frame was drawn with the perspective on since the uniforms changed
NoFrame == [drawn |-> FALSE, corners |-> DefaultCorners, inside |-> {}]

\* onPerspectiveDrag(e): the dragged corner goes to the mouse position and
\* updatePerspectiveUniforms() switches the perspective on
DragCorner(corner, to) ==
    /\ editMode
    /\ perspCorners' = [perspCorners EXCEPT ![corner] = to]
    /\ perspActive' = TRUE
    /\ frame' = NoFrame

\* resetPerspective(): the default corners, perspective off
ResetPerspective ==
    /\ perspActive
    /\ perspCorners' = DefaultCorners
    /\ perspActive' = FALSE
    /\ frame' = NoFrame

\* main() of the wrapper shader with u_perspActive, run for every fragment:
\* outsidePerspective is set where pointInQuad is false
DrawFrame ==
    /\ perspActive
    /\ ~frame.drawn
    /\ frame' = [drawn |-> TRUE, corners |-> perspCorners,
                 inside |-> {p \in Grid :
                     pointInQuad(p, perspCorners.tl, perspCorners.tr,
                                 perspCorners.br, perspCorners.bl)}]
    /\ UNCHANGED <<perspCorners, perspActive>>

\* the mask state after the first toggleEditMode(): edit mode on, and the
\* clean mask shown
EditModeEntered ==
    /\ maskCanvas = White
    /\ maskHistory = saveToHistory(<<>>, Transparent)
    /\ editMode = TRUE
    /\ isDrawing = FALSE
    /\ maskDirty = FALSE
    /\ u_hasMask = TRUE
    /\ currentEditTool = "brush"
    /\ polygonPoints = 0
    /\ maskOp = [kind |-> "toggle", saved |-> FALSE,
                 before |-> [canvas |-> White,
                             history |-> saveToHistory(<<>>, Transparent),
                             dirty |-> FALSE, hasMask |-> FALSE,
                             editMode |-> FALSE]]
    /\ maskEvents = 1
    /\ actLog = <<>>
    /\ undone = 0

QuadConstructed ==
    /\ perspCorners = DefaultCorners
    /\ perspActive = FALSE
    /\ frame = NoFrame

(* ============ src/unnamed/part_003: VideoInputManager ================= *)

\* availableDevices, as updateDeviceList() found them
Devices == <<"cam1", "cam2">>
DeviceIds == {Devices[i] : i \in 1..Len(Devices)}

\* the most camera starts and the most video files of one run
MaxCameraStarts == 3
MaxVideoFiles == 1

\* stopCurrentVideo(): stop the tracks of this.stream; pause and detach the
\* element and take it out of the document; dispose the texture.  0 is null.
stopCurrentVideo(m) ==
    LET m1 == IF m.stream # 0
              THEN [m EXCEPT !.live = @ \ {m.stream}, !.stream = 0]
              ELSE m
        m2 == IF m1.videoElement # 0
              THEN [m1 EXCEPT !.elements[m1.videoElement] =
                                  [srcObject |-> 0, src |-> "", loaded |-> @.loaded],
                              !.videoElement = 0]
              ELSE m1
    IN IF m2.videoTexture # 0
       THEN [m2 EXCEPT !.disposed = @ \cup {m2.videoTexture}, !.videoTexture = 0]
       ELSE m2

\* createVideoElement(): stop what there is if an element exists, then make
\* a new element with a loadeddata listener
createVideoElement(m) ==
    LET m1 == IF m.videoElement # 0 THEN stopCurrentVideo(m) ELSE m IN
    [m1 EXCEPT !.elements = Append(@, [srcObject |-> 0, src |-> "", loaded |-> FALSE]),
               !.videoElement = Len(m1.elements) + 1]

\* ShaderRenderer.setVideoTexture(texture), the onVideoReady callback
setVideoTexture(texture) ==
    /\ rendererTexture' = texture
    /\ u_hasVideo' = (texture # 0)

\* the camera branches of handleCameraChange(deviceId) up to the await of
\* getUserMedia in startWebcam(deviceId)
cameraChosen(m, deviceId) ==
    [stopCurrentVideo(m) EXCEPT !.currentVideoFile = 0,
                                !.currentSource = "camera",
                                !.currentDeviceId = deviceId]

\* a call of startWebcam() begins to wait for getUserMedia
Waits(deviceId, from) ==
    /\ videoCalls < MaxCameraStarts
    /\ pending' = pending \cup {[id |-> videoCalls + 1, deviceId |-> deviceId,
                                 from |-> from]}
    /\ videoCalls' = videoCalls + 1
    /\ UNCHANGED <<catching, rendererTexture, u_hasVideo, videoFiles>>

\* the camera selector changes to a device: handleCameraChange(deviceId)
SelectCamera(deviceId) ==
    /\ video.selector # deviceId
    /\ video' = [cameraChosen(video, deviceId) EXCEPT !.selector = deviceId]
    /\ Waits(deviceId, "selector")
    /\ lastVideoOp' = [kind |-> "select", call |-> videoCalls + 1]

\* handleCameraChange('none'): stop, no source, and onVideoReady(null)
cameraNone(m) ==
    [stopCurrentVideo(m) EXCEPT !.currentVideoFile = 0,
                                !.currentSource = "none",
                                !.currentDeviceId = "none"]

\* the camera selector changes to None
SelectNone ==
    /\ video.selector # "none"
    /\ video' = [cameraNone(video) EXCEPT !.selector = "none"]
    /\ setVideoTexture(0)
    /\ lastVideoOp' = [kind |-> "none", call |-> 0]
    /\ UNCHANGED <<pending, catching, videoCalls, videoFiles>>

\* handleAudioToHueChange(value) with the value in the camera range and no
\* camera chosen: the camera of currentDeviceId, or else the first device
AudioInRange ==
    LET deviceToUse == IF video.currentDeviceId # "none" THEN video.currentDeviceId
                       ELSE Devices[1] IN
    /\ video.currentSource \in {"none", "file"}
    /\ video' = cameraChosen(video, deviceToUse)
    /\ Waits(deviceToUse, "audio")
    /\ lastVideoOp' = [kind |-> "audioOn", call |-> videoCalls + 1]

\* handleAudioToHueChange(value) with the value far from the camera range
\* and a camera chosen: handleCameraChange('none'), then the selector
AudioFar ==
    /\ video.currentSource = "camera"
    /\ video' = [cameraNone(video) EXCEPT !.selector = "none"]
    /\ setVideoTexture(0)
    /\ lastVideoOp' = [kind |-> "audioOff", call |-> 0]
    /\ UNCHANGED <<pending, catching, videoCalls, videoFiles>>

\* what handleAudioToHueChange does once handleCameraChange has returned:
\* the selector shows deviceToUse
afterCameraChange(m, call) ==
    IF call.from = "audio" THEN [m EXCEPT !.selector = call.deviceId] ELSE m

\* getUserMedia resolves for a waiting call: this.stream is the new stream,
\* createVideoElement(), and the element plays this.stream
GetUserMediaResolves(call) ==
    LET s == Len(video.streams) + 1
        m1 == [video EXCEPT !.streams = Append(@, call.id),
                            !.live = @ \cup {s},
                            !.stream = s]
        m2 == createVideoElement(m1)
        m3 == [m2 EXCEPT !.elements[m2.videoElement].srcObject = m2.stream]
    IN
    /\ call \in pending
    /\ pending' = pending \ {call}
    /\ video' = afterCameraChange(m3, call)
    /\ lastVideoOp' = [kind |-> "started", call |-> call.id]
    /\ UNCHANGED <<catching, rendererTexture, u_hasVideo, videoCalls, videoFiles>>

\* the end of the catch block of startWebcam()
cameraFailed(m) ==
    [m EXCEPT !.selector = "none", !.currentDeviceId = "none", !.currentSource = "none"]

\* getUserMedia rejects for a waiting call.  A NotFoundError waits for
\* updateDeviceList() first; any other error runs the catch block to its end
GetUserMediaRejects(call, notFound) ==
    /\ call \in pending
    /\ pending' = pending \ {call}
    /\ IF notFound
       THEN /\ catching' = catching \cup {call}
            /\ UNCHANGED video
            /\ lastVideoOp' = [kind |-> "rejected", call |-> call.id]
       ELSE /\ video' = afterCameraChange(cameraFailed(video), call)
            /\ lastVideoOp' = [kind |-> "failed", call |-> call.id,
                               atEnd |-> cameraFailed(video)]
            /\ UNCHANGED catching
    /\ UNCHANGED <<rendererTexture, u_hasVideo, videoCalls, videoFiles>>

\* updateCameraSelector(): the selector shows currentDeviceId, or None
updateCameraSelector(m) == [m EXCEPT !.selector = m.currentDeviceId]

\* updateDeviceList() returns to the catch block, which runs to its end
CatchContinues(call) ==
    /\ call \in catching
    /\ catching' = catching \ {call}
    /\ video' = afterCameraChange(cameraFailed(updateCameraSelector(video)), call)
    /\ lastVideoOp' = [kind |-> "failed", call |-> call.id,
                       atEnd |-> cameraFailed(updateCameraSelector(video))]
    /\ UNCHANGED <<pending, rendererTexture, u_hasVideo, videoCalls, videoFiles>>

\* a devicechange event: updateDeviceList() ends with updateCameraSelector()
DeviceChange ==
    /\ video.selector # video.currentDeviceId
    /\ video' = updateCameraSelector(video)
    /\ lastVideoOp' = [kind |-> "devicechange", call |-> 0]
    /\ UNCHANGED <<pending, catching, rendererTexture, u_hasVideo, videoCalls, videoFiles>>

\* loadVideoFile(file): from the file input or a drop
LoadVideoFile ==
    LET m1 == [stopCurrentVideo(video) EXCEPT !.currentDeviceId = "none",
                                              !.selector = "none",
                                              !.currentSource = "file",
                                              !.currentVideoFile = videoFiles + 1]
        m2 == createVideoElement(m1)
    IN
    /\ videoFiles < MaxVideoFiles
    /\ video' = [m2 EXCEPT !.elements[m2.videoElement].src = "file"]
    /\ videoFiles' = videoFiles + 1
    /\ lastVideoOp' = [kind |-> "file", call |-> 0]
    /\ UNCHANGED <<pending, catching, rendererTexture, u_hasVideo, videoCalls>>

\* loadeddata on the element that plays a stream or a file: a new texture of
\* this.videoElement, handed to onVideoReady
LoadedData ==
    LET e == video.videoElement
        t == video.textures + 1 IN
    /\ e # 0
    /\ ~video.elements[e].loaded
    /\ video.elements[e].srcObject \in video.live \/ video.elements[e].src = "file"
    /\ video' = [video EXCEPT !.elements[e].loaded = TRUE,
                              !.textures = t,
                              !.videoTexture = t]
    /\ setVideoTexture(t)
    /\ lastVideoOp' = [kind |-> "loadeddata", call |-> 0]
    /\ UNCHANGED <<pending, catching, videoCalls, videoFiles>>

\* the constructor of VideoInputManager, the selector on None, and a renderer
\* without video
VideoConstructed ==
    /\ video = [stream |-> 0, videoElement |-> 0, videoTexture |-> 0,
                currentSource |-> "none", currentDeviceId |-> "none",
                currentVideoFile |-> 0, selector |-> "none",
                streams |-> <<>>, live |-> {}, elements |-> <<>>,
                textures |-> 0, disposed |-> {}]
    /\ pending = {}
    /\ catching = {}
    /\ rendererTexture = 0
    /\ u_hasVideo = FALSE
    /\ videoCalls = 0
    /\ videoFiles = 0
    /\ lastVideoOp = [kind |-> "init", call |-> 0]

(* ========= src/unnamed/part_001: MIDIController, later version ======== *)

\* the most port and selector events of one run
MaxMidiEvents == 5

\* updateDeviceList(): the selector is rebuilt from WebMidi.inputs, which
\* leaves its first option selected, and then set to currentInput.id; a value
\* that is no option leaves nothing selected
updateDeviceList(m) ==
    [m EXCEPT !.selector =
        IF Len(m.inputs) = 0 THEN ""
        ELSE IF m.currentInput = "none" THEN m.inputs[1]
        ELSE IF m.currentInput \in Range(m.inputs) THEN m.currentInput
        ELSE ""]

\* connectToInput(input): removeListener() on the previous input, then the
\* noteon, noteoff, controlchange and pitchbend listeners on the new one
connectToInput2(m, input) ==
    LET m1 == IF m.currentInput # "none"
              THEN [m EXCEPT !.sets[m.currentInput] = 0]
              ELSE m
    IN [m1 EXCEPT !.currentInput = input, !.selector = input,
                  !.sets[input] = @ + 1]

\* a port or selector event is counted
Midi2Event(kind, port) ==
    /\ midi2Events < MaxMidiEvents
    /\ midi2Events' = midi2Events + 1
    /\ lastMidi2Op' = [kind |-> kind, port |-> port, handled |-> 0]

\* init(): WebMidi.enable() resolves with the inputs ins; the selector is
\* filled and the first input connected
Enable2(ins) ==
    LET m1 == updateDeviceList([midi2 EXCEPT !.enabled = TRUE, !.inputs = ins]) IN
    /\ ~midi2.enabled
    /\ midi2' = IF Len(ins) > 0 THEN connectToInput2(m1, ins[1]) ELSE m1
    /\ Midi2Event("enable", "none")

\* the MIDI selector changes to another input
SelectInput(input) ==
    /\ midi2.enabled
    /\ input \in Range(midi2.inputs)
    /\ input # midi2.selector
    /\ midi2' = connectToInput2(midi2, input)
    /\ Midi2Event("select", input)

\* a port is plugged in: the 'connected' listener fills the selector and
\* connects to an input when there is no currentInput
Connected2(port) ==
    /\ midi2.enabled
    /\ port \notin Range(midi2.inputs) \cup midi2.outputs
    /\ IF IsInput(port)
       THEN LET m1 == updateDeviceList([midi2 EXCEPT !.inputs = Append(@, port)]) IN
            midi2' = IF m1.currentInput = "none" THEN connectToInput2(m1, port) ELSE m1
       ELSE midi2' = [midi2 EXCEPT !.outputs = @ \cup {port}]
    /\ Midi2Event("connected", port)

\* a port is unplugged: the 'disconnected' listener fills the selector and
\* forgets currentInput when it was that port.  The library either keeps the
\* Input object of the port with its listeners, for when the port comes
\* back, or drops it.
Disconnected2(port, kept) ==
    /\ midi2.enabled
    /\ port \in Range(midi2.inputs) \cup midi2.outputs
    /\ IF IsInput(port)
       THEN LET m1 == [midi2 EXCEPT !.inputs = Without(@, port),
                                    !.sets[port] = IF kept THEN @ ELSE 0]
                m2 == updateDeviceList(m1)
            IN midi2' = IF m2.currentInput = port
                        THEN [m2 EXCEPT !.currentInput = "none"]
                        ELSE m2
       ELSE midi2' = [midi2 EXCEPT !.outputs = @ \ {port}]
    /\ Midi2Event("disconnected", port)

\* a noteon message arrives on an input: every noteon listener attached to
\* it calls handleNoteOn
NoteOn2(port) ==
    /\ midi2.enabled
    /\ port \in Range(midi2.inputs)
    /\ lastMidi2Op' = [kind |-> "noteon", port |-> port, handled |-> midi2.sets[port]]
    /\ UNCHANGED <<midi2, midi2Events>>

\* the constructor of MIDIController, before init()
Midi2Constructed ==
    /\ midi2 = [enabled |-> FALSE, inputs |-> <<>>, outputs |-> {},
                currentInput |-> "none", selector |-> "",
                sets |-> [p \in InputPorts |-> 0]]
    /\ midi2Events = 0
    /\ lastMidi2Op = [kind |-> "none", port |-> "none", handled |-> 0]

\* the state the constructors of the later version leave
LaterConstructed ==
    /\ MaskConstructed
    /\ QuadConstructed
    /\ VideoConstructed
    /\ Midi2Constructed

(* ---------------- the running player: notes, CCs, keys ---------------- *)

\* the state ShaderMIDIApp.init() leaves with n shader files loaded and the
\* inputs ins present when WebMidi.enable() resolved
FirstRunning(n, ins) ==
    /\ shaders = ShaderNames(n)
    /\ currentIndex = 0
    /\ globalUniforms = DefaultUniforms
    /\ material = [createShaderMaterial(ShaderNames(n)[1], DefaultUniforms)
                     EXCEPT !.iFrame = 1]
    /\ uiShader = ShaderNames(n)[1]
    /\ infoVisible = TRUE
    /\ fullscreen = FALSE
    /\ lastOp = NoOp
    /\ keyLog = <<>>
    /\ lastSet = DefaultUniforms
    /\ pc = "running"
    /\ midiInputs = ins
    /\ midiOutputs = {}
    /\ connected = (Len(ins) > 0)
    /\ uiMidiDevice = IF Len(ins) > 0 THEN PortName(ins[1]) ELSE NotConnectedText
    /\ listening = IF Len(ins) > 0 THEN {ins[1]} ELSE {}
    /\ keyboardInstalled = TRUE
    /\ animating = TRUE
    /\ midiOutcome = IF Len(ins) > 0 THEN "connected" ELSE "noInputs"
    /\ inputsAtInit = ins
    /\ clock = [running |-> TRUE, startTime |-> 0, oldTime |-> 0, elapsedTime |-> 0]
    /\ now = 0
    /\ lastRenderAt = 0

Running(n, ins) ==
    /\ FirstRunning(n, ins)
    /\ LaterConstructed

NavInit == \E n \in 1..MaxShaders : Running(n, <<"in1">>)

NavNoteOn ==
    /\ \E port \in InputPorts, note \in Notes : NoteOn(port, note)
    /\ UNCHANGED <<midiVars, clockVars, maskVars, quadVars, videoVars, midi2Vars>>
NavControlChange ==
    /\ \E port \in InputPorts, cc \in Controllers, raw \in RawValues :
            ControlChange(port, cc, raw)
    /\ UNCHANGED <<midiVars, clockVars, maskVars, quadVars, videoVars, midi2Vars>>
NavKeyDown ==
    /\ \E key \in Keys : KeyDown(key)
    /\ UNCHANGED <<midiVars, clockVars, maskVars, quadVars, videoVars, midi2Vars>>

NavNext == NavNoteOn \/ NavControlChange \/ NavKeyDown

SpecNav == NavInit /\ [][NavNext]_vars

(* ------------- start-up and MIDI ports coming and going --------------- *)

\* the largest time between the two clock reads of one render() call
MaxCallGap == 1

\* the keys and notes tried while ports come and go
PortKeys == {"n", "ArrowLeft"}
PortNotes == {60, 0}

\* the state after `new ShaderMIDIApp()`, before init() has run; the overlay
\* is taken to start with the text the 'disconnected' listener writes
AppInit ==
    /\ shaders = <<>>
    /\ currentIndex = 0
    /\ globalUniforms = DefaultUniforms
    /\ material = NoMaterial
    /\ uiShader = "none"
    /\ infoVisible = TRUE
    /\ fullscreen = FALSE
    /\ lastOp = NoOp
    /\ keyLog = <<>>
    /\ lastSet = DefaultUniforms
    /\ pc = "loading"
    /\ midiInputs = <<>>
    /\ midiOutputs = {}
    /\ connected = FALSE
    /\ uiMidiDevice = NotConnectedText
    /\ listening = {}
    /\ keyboardInstalled = FALSE
    /\ animating = FALSE
    /\ midiOutcome = "pending"
    /\ inputsAtInit = <<>>
    /\ clock = NewClock
    /\ now = 0
    /\ lastRenderAt = 0
    /\ LaterConstructed

PortsShadersLoaded == \E n \in 0..MaxShaders, ok \in BOOLEAN : ShadersLoaded(n, ok)
PortsEnableResolved == EnableResolved(0)
PortsEnableRejected == EnableRejected(0)
PortsConnected == \E p \in Ports : PortConnected(p)
PortsDisconnected == \E p \in Ports : PortDisconnected(p)
PortsKeyDown ==
    /\ \E key \in PortKeys : KeyDown(key)
    /\ UNCHANGED <<midiVars, clockVars, maskVars, quadVars, videoVars, midi2Vars>>
PortsNoteOn ==
    /\ \E port \in InputPorts, note \in PortNotes : NoteOn(port, note)
    /\ UNCHANGED <<midiVars, clockVars, maskVars, quadVars, videoVars, midi2Vars>>

PortsNext ==
    \/ PortsShadersLoaded
    \/ PortsEnableResolved
    \/ PortsEnableRejected
    \/ PortsConnected
    \/ PortsDisconnected
    \/ PortsKeyDown
    \/ PortsNoteOn

SpecPorts == AppInit /\ [][PortsNext]_vars

(* --------------------------- the render loop -------------------------- *)

\* the last tick of the clock that is looked at
MaxTime == 5
\* the most frames rendered into one material
MaxFrames == 4

\* time passes between two animation frames
Tick ==
    /\ now < MaxTime
    /\ now' = now + 1
    /\ UNCHANGED <<clock, lastRenderAt>>
    /\ UNCHANGED <<navVars, midiVars, maskVars, quadVars, videoVars, midi2Vars>>

\* animate(): the requestAnimationFrame callback renders a frame
Frame(gap) ==
    /\ animating
    /\ material # NoMaterial
    /\ material.iFrame < MaxFrames
    /\ now + gap <= MaxTime
    /\ render(gap)
    /\ lastOp' = [kind |-> "render", entered |-> now, at |-> now + gap,
                  prevAt |-> lastRenderAt]
    /\ keyLog' = <<>>
    /\ UNCHANGED <<shaders, currentIndex, globalUniforms, uiShader, infoVisible,
                   fullscreen, lastSet>>
    /\ UNCHANGED <<midiVars, maskVars, quadVars, videoVars, midi2Vars>>

ClockFrame == \E gap \in 0..MaxCallGap : Frame(gap)
ClockKeyDown ==
    /\ \E key \in PortKeys : KeyDown(key)
    /\ UNCHANGED <<midiVars, clockVars, maskVars, quadVars, videoVars, midi2Vars>>

ClockNext == Tick \/ ClockFrame \/ ClockKeyDown

SpecClock == NavInit /\ [][ClockNext]_vars

(* ------------------------- editing the mask --------------------------- *)

\* the later version, running with one shader; the variables of the first
\* version are not touched
MaskInit == Running(1, <<>>)

MaskClear == \E viaKey \in BOOLEAN : ClearMask(viaKey)
MaskInvert == \E viaKey \in BOOLEAN : InvertMask(viaKey)
MaskUndo == \E viaKey \in BOOLEAN : UndoMask(viaKey)
MaskClosePolygon == \E viaKey, covers \in BOOLEAN : ClosePolygon(viaKey, covers)
MaskCancelPolygon == \E viaKey \in BOOLEAN : CancelPolygon(viaKey)
MaskSetEditTool ==
    \E viaKey \in BOOLEAN, tool \in {"brush", "polygon"} : SetEditTool(viaKey, tool)
MaskMouseDown == \E shiftKey, near, covers \in BOOLEAN : MouseDown(shiftKey, near, covers)
MaskMouseMove == \E shiftKey \in BOOLEAN : MouseMove(shiftKey)

MaskNext ==
    \/ MaskClear
    \/ MaskInvert
    \/ MaskUndo
    \/ MaskClosePolygon
    \/ MaskCancelPolygon
    \/ MaskSetEditTool
    \/ ToggleEditMode
    \/ MaskMouseDown
    \/ MaskMouseMove
    \/ MouseUp
    \/ TouchStart
    \/ TouchMove

SpecMask == MaskInit /\ [][MaskNext]_vars

(* ----------------------- the perspective quad ------------------------- *)

\* the later version in edit mode, where the perspective handles are shown
QuadInit ==
    /\ FirstRunning(1, <<>>)
    /\ EditModeEntered
    /\ QuadConstructed
    /\ VideoConstructed
    /\ Midi2Constructed

QuadDragCorner ==
    /\ \E corner \in CornerNames, to \in Grid : DragCorner(corner, to)
    /\ UNCHANGED <<navVars, midiVars, clockVars, maskVars, videoVars, midi2Vars>>

QuadResetPerspective ==
    /\ ResetPerspective
    /\ UNCHANGED <<navVars, midiVars, clockVars, maskVars, videoVars, midi2Vars>>

QuadDrawFrame ==
    /\ DrawFrame
    /\ UNCHANGED <<navVars, midiVars, clockVars, maskVars, videoVars, midi2Vars>>

QuadNext ==
    \/ QuadDragCorner
    \/ QuadResetPerspective
    \/ QuadDrawFrame

SpecQuad == QuadInit /\ [][QuadNext]_vars

(* ------------------------- cameras and files -------------------------- *)

VideoInit == Running(1, <<>>)

VideoSelectCamera ==
    /\ \E d \in DeviceIds : SelectCamera(d)
    /\ UNCHANGED <<navVars, midiVars, clockVars, maskVars, quadVars, midi2Vars>>

VideoSelectNone ==
    /\ SelectNone
    /\ UNCHANGED <<navVars, midiVars, clockVars, maskVars, quadVars, midi2Vars>>

VideoAudioInRange ==
    /\ AudioInRange
    /\ UNCHANGED <<navVars, midiVars, clockVars, maskVars, quadVars, midi2Vars>>

VideoAudioFar ==
    /\ AudioFar
    /\ UNCHANGED <<navVars, midiVars, clockVars, maskVars, quadVars, midi2Vars>>

VideoResolves ==
    /\ \E call \in pending : GetUserMediaResolves(call)
    /\ UNCHANGED <<navVars, midiVars, clockVars, maskVars, quadVars, midi2Vars>>

VideoRejects ==
    /\ \E call \in pending, notFound \in BOOLEAN : GetUserMediaRejects(call, notFound)
    /\ UNCHANGED <<navVars, midiVars, clockVars, maskVars, quadVars, midi2Vars>>

VideoCatchContinues ==
    /\ \E call \in catching : CatchContinues(call)
    /\ UNCHANGED <<navVars, midiVars, clockVars, maskVars, quadVars, midi2Vars>>

VideoDeviceChange ==
    /\ DeviceChange
    /\ UNCHANGED <<navVars, midiVars, clockVars, maskVars, quadVars, midi2Vars>>

VideoLoadFile ==
    /\ LoadVideoFile
    /\ UNCHANGED <<navVars, midiVars, clockVars, maskVars, quadVars, midi2Vars>>

VideoLoadedData ==
    /\ LoadedData
    /\ UNCHANGED <<navVars, midiVars, clockVars, maskVars, quadVars, midi2Vars>>

VideoNext ==
    \/ VideoSelectCamera
    \/ VideoSelectNone
    \/ VideoAudioInRange
    \/ VideoAudioFar
    \/ VideoResolves
    \/ VideoRejects
    \/ VideoCatchContinues
    \/ VideoDeviceChange
    \/ VideoLoadFile
    \/ VideoLoadedData

SpecVideo == VideoInit /\ [][VideoNext]_vars

(* --------------------- MIDI inputs, later version --------------------- *)

\* WebMidi.inputs when enable() resolves
InputLists == {<<>>, <<"in1">>, <<"in2">>, <<"in1", "in2">>, <<"in2", "in1">>}

Midi2Init == Running(1, <<>>)

Midi2Enable ==
    /\ \E ins \in InputLists : Enable2(ins)
    /\ UNCHANGED <<navVars, midiVars, clockVars, maskVars, quadVars, videoVars>>

Midi2Select ==
    /\ \E input \in InputPorts : SelectInput(input)
    /\ UNCHANGED <<navVars, midiVars, clockVars, maskVars, quadVars, videoVars>>

Midi2Connected ==
    /\ \E port \in Ports : Connected2(port)
    /\ UNCHANGED <<navVars, midiVars, clockVars, maskVars, quadVars, videoVars>>

Midi2Disconnected ==
    /\ \E port \in Ports, kept \in BOOLEAN : Disconnected2(port, kept)
    /\ UNCHANGED <<navVars, midiVars, clockVars, maskVars, quadVars, videoVars>>

Midi2NoteOn ==
    /\ \E port \in InputPorts : NoteOn2(port)
    /\ UNCHANGED <<navVars, midiVars, clockVars, maskVars, quadVars, videoVars>>

Midi2Next ==
    \/ Midi2Enable
    \/ Midi2Select
    \/ Midi2Connected
    \/ Midi2Disconnected
    \/ Midi2NoteOn

SpecMidi2 == Midi2Init /\ [][Midi2Next]_vars

(* ------------------------------ claims -------------------------------- *)

\* C1: after any interleaving of parameter changes and shader switches, every
\* global effect uniform of the active material equals the value last set for
\* that parameter, or the default when it was never set; a shader switch
\* never resets an effect.
C1_UniformsFollowLastSet ==
    material # NoMaterial =>
        \A u \in UniformNames : material.uniforms[u] = lastSet[u]

\* C1 witness: a shader switch built a new material while every effect had
\* been moved off its default.
C1_Witness ==
    /\ lastOp.kind \in {"noteon", "key"}
    /\ lastOp.before.mat.shader # material.shader
    /\ \A u \in UniformNames : lastSet[u] # DefaultUniforms[u]
    /\ material.uniforms = lastSet

\* C2: a note-on handled as direct selection selects index
\* floor(n / 127 * N), which is a valid index 0..N-1, and that shader becomes
\* the current, displayed shader.
C2_DirectSelectionValid ==
    (lastOp.kind = "noteon" /\ lastOp.action = "index") =>
        LET i == (lastOp.num * NumShaders) \div 127 IN
        /\ i \in 0..(NumShaders - 1)
        /\ currentIndex = i
        /\ material.shader = shaders[i + 1]
        /\ uiShader = shaders[i + 1]

\* C3: note 60 switches to the next shader and note 59 to the previous one,
\* (i+1) mod N and (i-1) mod N; neither is handled as direct selection.
C3_NextPrevNotes ==
    lastOp.kind = "noteon" =>
        /\ lastOp.num = 60 =>
              /\ currentIndex = (lastOp.before.idx + 1) % NumShaders
              /\ lastOp.action # "index"
        /\ lastOp.num = 59 =>
              /\ currentIndex = (lastOp.before.idx - 1) % NumShaders
              /\ lastOp.action # "index"

\* C3 witness: note 60 moved to the next shader, which is not the shader that
\* direct selection of note 60 would have chosen.
C3_Witness ==
    /\ lastOp.kind = "noteon"
    /\ lastOp.num = 60
    /\ currentIndex = lastOp.before.idx + 1
    /\ currentIndex # (60 * NumShaders) \div 127

\* the direction the README gives each navigation key
C4_KeyDir(key) ==
    IF key \in {"ArrowRight", "n", "N"} THEN "next"
    ELSE IF key \in {"ArrowLeft", "p", "P"} THEN "prev"
    ELSE "none"

\* C4: keyboard navigation wraps around: ArrowRight/N moves i to (i+1) mod N,
\* ArrowLeft/P to (i-1) mod N; next then previous (or previous then next)
\* returns to the same shader, and N next presses return to the start.
C4_KeyboardCycle ==
    LET n == Len(keyLog) IN
    /\ (lastOp.kind = "key" /\ C4_KeyDir(lastOp.key) = "next") =>
            currentIndex = (lastOp.before.idx + 1) % NumShaders
    /\ (lastOp.kind = "key" /\ C4_KeyDir(lastOp.key) = "prev") =>
            currentIndex = (lastOp.before.idx - 1) % NumShaders
    /\ (n >= 2 /\ keyLog[n].dir # keyLog[n - 1].dir) =>
            currentIndex = keyLog[n - 1].from
    /\ (n >= NumShaders /\ \A j \in (n - NumShaders + 1)..n : keyLog[j].dir = "next") =>
            currentIndex = keyLog[n - NumShaders + 1].from

\* C4 witness: with three shaders, three next presses in a row came back to
\* the shader they started from, passing the wrap-around.
C4_Witness ==
    /\ NumShaders = MaxShaders
    /\ Len(keyLog) >= NumShaders
    /\ \A j \in (Len(keyLog) - NumShaders + 1)..Len(keyLog) : keyLog[j].dir = "next"
    /\ keyLog[Len(keyLog) - NumShaders + 1].from = 1
    /\ currentIndex = 1

\* C5: CC1 sets hue to v*360 (0..360), CC2 saturation, CC3 lightness and CC4
\* monochrome to v (0..1); each changes only its own parameter and any other
\* controller changes none.  Values are in units of 1/127.
C5_ControlChangeMapping ==
    lastOp.kind = "cc" =>
        LET b == lastOp.before.gu
            v == lastOp.val
            expected ==
                CASE lastOp.num = 1 -> [b EXCEPT !["u_hue"] = v * 360]
                  [] lastOp.num = 2 -> [b EXCEPT !["u_saturation"] = v]
                  [] lastOp.num = 3 -> [b EXCEPT !["u_lightness"] = v]
                  [] lastOp.num = 4 -> [b EXCEPT !["u_monochrome"] = v]
                  [] OTHER -> b
        IN  /\ globalUniforms = expected
            /\ material.uniforms = expected
            /\ currentIndex = lastOp.before.idx
            /\ globalUniforms["u_hue"] \in 0..(360 * 127)
            /\ \A u \in UniformNames \ {"u_hue"} : globalUniforms[u] \in 0..127

\* C5 witness: CC3 moved lightness, and only lightness, to a new value.
C5_Witness ==
    /\ lastOp.kind = "cc"
    /\ lastOp.num = 3
    /\ lastOp.val = 64
    /\ lastOp.before.gu["u_lightness"] = 0
    /\ lastOp.before.gu["u_monochrome"] = 127
    /\ globalUniforms["u_lightness"] = 64
    /\ globalUniforms["u_monochrome"] = 127


\* C6: when WebMidi.enable() fails, or succeeds with no input, init() still
\* installs the keyboard controls and starts the render loop, and a
\* navigation key still switches the shader.
C6_KeyboardWithoutMidi ==
    midiOutcome \in {"failed", "noInputs"} =>
        /\ pc = "running"
        /\ keyboardInstalled
        /\ animating
        /\ (lastOp.kind = "key" /\ lastOp.key = "n") =>
              /\ currentIndex = (lastOp.before.idx + 1) % NumShaders
              /\ material.shader = shaders[currentIndex + 1]

\* C6 witness: enable() failed, nothing is listened to, and the N key moved
\* from the first shader to the second.
C6_Witness ==
    /\ midiOutcome = "failed"
    /\ listening = {}
    /\ keyboardInstalled
    /\ animating
    /\ lastOp.kind = "key"
    /\ lastOp.key = "n"
    /\ lastOp.before.idx = 0
    /\ currentIndex = 1

\* C7: when enable() resolves and WebMidi.inputs is not empty at that moment,
\* the step that finishes initialization connects to WebMidi.inputs[0]: no
\* key, note or selector event is involved.
C7_AutoConnectFirstInput ==
    [][(pc = "enabling" /\ pc' # "enabling" /\ midiOutcome' # "failed"
            /\ Len(midiInputs) > 0)
        => /\ connected'
           /\ listening' = {midiInputs[1]}
           /\ uiMidiDevice' = midiInputs[1]
           /\ lastOp' = lastOp]_vars

\* C7 witness: two inputs were present, in2 first, and initialization ended
\* connected to in2.
C7_Witness ==
    /\ pc = "running"
    /\ inputsAtInit = <<"in2", "in1">>
    /\ midiInputs = inputsAtInit
    /\ connected
    /\ listening = {"in2"}
    /\ uiMidiDevice = "in2"
    /\ lastOp = NoOp

\* C8: the overlay's MIDI device field names the controller whose messages
\* drive the app: it shows a device name exactly while that device is the
\* only input listened to, and 'Not connected' only when no listened-to
\* input remains.
C8_OverlayNamesListenedInput ==
    pc = "running" =>
        /\ \A p \in InputPorts : (uiMidiDevice = p) <=> (listening = {p})
        /\ (uiMidiDevice = "Not connected") => (listening = {})

\* C9: on every render call iTimeDelta is the time elapsed since the previous
\* render call (from its getDelta() to this one's) and iTime is the time from
\* the start of the clock to this call's getElapsedTime() (times in ticks).
C9_TimeDeltaIsFrameTime ==
    lastOp.kind = "render" =>
        /\ material.iTimeDelta = lastOp.at - lastOp.prevAt
        /\ material.iTime = lastOp.entered - clock.startTime

\* C10: the mask undo history never holds more than maxHistory = 10
\* snapshots; a save appends the canvas as it was, and when that would make
\* eleven the oldest snapshot is discarded and the other ten keep their order
C10_HistoryBounded ==
    /\ Len(maskHistory) <= maxHistory
    /\ maskOp.saved =>
         LET all == Append(maskOp.before.history, maskOp.before.canvas) IN
         maskHistory = IF Len(all) <= 10
                       THEN all
                       ELSE SubSeq(all, Len(all) - 9, Len(all))

\* a save into a full history has dropped an oldest snapshot that differed
\* from the second oldest
C10_Witness ==
    /\ maskOp.saved
    /\ Len(maskOp.before.history) = 10
    /\ Len(maskHistory) = 10
    /\ maskOp.before.history[1] # maskOp.before.history[2]
    /\ maskHistory[1] = maskOp.before.history[2]
    /\ maskHistory[10] = maskOp.before.canvas

\* C11: every mask-modifying action (the start of a brush or touch stroke,
\* closing a polygon, invert, clear) pushes one snapshot, the canvas as it was
\* before the action; an undo puts the newest snapshot back and removes it;
\* so the j-th of the undos that follow a run of k <= 10 actions leaves the
\* canvas as it was before the j-th last action of the run.
C11_UndoRevertsInOrder ==
    /\ maskOp.saved =>
         /\ Len(maskHistory) >= 1
         /\ maskHistory[Len(maskHistory)] = maskOp.before.canvas
         /\ Len(maskHistory) =
              IF Len(maskOp.before.history) < 10
              THEN Len(maskOp.before.history) + 1 ELSE 10
    /\ (maskOp.kind = "undo" /\ Len(maskOp.before.history) > 0) =>
         /\ maskCanvas = maskOp.before.history[Len(maskOp.before.history)]
         /\ maskHistory = SubSeq(maskOp.before.history, 1,
                                 Len(maskOp.before.history) - 1)
    /\ (maskOp.kind = "undo" /\ undone \in 1..Len(actLog)) =>
         maskCanvas = actLog[Len(actLog) - undone + 1]

\* three actions that each changed the canvas were followed by three undos,
\* the third of which brought back the canvas from before the first action
C11_Witness ==
    /\ maskOp.kind = "undo"
    /\ undone = 3
    /\ Len(actLog) = 3
    /\ actLog[1] # actLog[2]
    /\ actLog[2] # actLog[3]
    /\ maskCanvas = actLog[1]
    /\ maskOp.before.canvas = actLog[2]

\* twice the area of the triangle a b c
TwiceArea(a, b, c) ==
    LET v == (b[1] - a[1]) * (c[2] - a[2]) - (c[1] - a[1]) * (b[2] - a[2]) IN
    IF v < 0 THEN -v ELSE v

\* p lies between the least and the greatest coordinates of a, b and c
InBox(p, a, b, c) ==
    \A i \in 1..2 :
        /\ \E q \in {a, b, c} : q[i] <= p[i]
        /\ \E q \in {a, b, c} : q[i] >= p[i]

\* p lies in the closed triangle a b c: the three triangles p makes with
\* its sides fill it exactly (on a flat triangle p is also within its span)
InTriangle(p, a, b, c) ==
    /\ TwiceArea(a, b, c) = TwiceArea(p, a, b) + TwiceArea(p, b, c) + TwiceArea(p, c, a)
    /\ TwiceArea(a, b, c) = 0 => InBox(p, a, b, c)

\* p lies inside or on the boundary of the convex quad: in one of the
\* triangles of its corners
InQuad(p, q) ==
    \/ InTriangle(p, q.tl, q.tr, q.br)
    \/ InTriangle(p, q.tr, q.br, q.bl)
    \/ InTriangle(p, q.br, q.bl, q.tl)
    \/ InTriangle(p, q.bl, q.tl, q.tr)

\* the turn at corner b on the way a, b, c
Turn(a, b, c) == (b[1] - a[1]) * (c[2] - b[2]) - (b[2] - a[2]) * (c[1] - b[1])

\* the corners tl, tr, br, bl go round a convex quad of positive area, in
\* either winding order
ConvexQuad(q) ==
    LET t == <<Turn(q.tl, q.tr, q.br), Turn(q.tr, q.br, q.bl),
               Turn(q.br, q.bl, q.tl), Turn(q.bl, q.tl, q.tr)>> IN
    /\ (\A i \in 1..4 : t[i] >= 0) \/ (\A i \in 1..4 : t[i] <= 0)
    /\ \E i \in 1..4 : t[i] # 0

\* C12: for a convex quad, in either winding order, pointInQuad is true of a
\* point exactly when the point is inside the quad or on its boundary; with
\* the default corners every point of the unit square is inside.
C12_PointInQuadExact ==
    frame # NoFrame =>
        /\ ConvexQuad(frame.corners) =>
              \A p \in Grid : (p \in frame.inside) <=> InQuad(p, frame.corners)
        /\ frame.corners = DefaultCorners => frame.inside = Grid

\* a frame was drawn with a convex quad that has no side along the grid and
\* has points strictly inside, on its boundary and outside
C12_Witness ==
    /\ frame # NoFrame
    /\ frame.corners = [tl |-> <<1, 0>>, tr |-> <<0, 1>>, br |-> <<1, 2>>, bl |-> <<2, 1>>]
    /\ ConvexQuad(frame.corners)
    /\ <<1, 1>> \in frame.inside
    /\ <<1, 0>> \in frame.inside
    /\ <<0, 0>> \notin frame.inside

\* C13: when getUserMedia rejects, startWebcam catches the failure and the
\* manager is in the no-video state at the end of startWebcam: currentSource
\* is 'none', currentDeviceId is null, no stream is live and the camera
\* selector shows 'none'.
C13_FailedStartLeavesNoVideo ==
    lastVideoOp.kind = "failed" =>
        /\ lastVideoOp.atEnd.currentSource = "none"
        /\ lastVideoOp.atEnd.currentDeviceId = "none"
        /\ lastVideoOp.atEnd.selector = "none"
        /\ lastVideoOp.atEnd.stream = 0
        /\ lastVideoOp.atEnd.live = {}

\* C14: after any sequence of strokes, polygon closes, inverts, clears, undos
\* and toggles, when edit mode is switched off a mask canvas that is not all
\* white stays applied (u_hasMask); the mask is switched off only when clean.
C14_DrawnMaskStaysApplied ==
    (maskOp.kind = "toggle" /\ maskOp.before.editMode /\ ~editMode) =>
        (maskCanvas # White => u_hasMask)

\* C15: after any sequence of auto-connects, selector changes and 'connected'
\* and 'disconnected' events, the MIDI handlers are attached to at most one
\* of the inputs present, only to currentInput, and only once; so a message
\* is handled at most once.
C15_HandlersOnCurrentInputOnly ==
    /\ \A p \in Range(midi2.inputs) :
          /\ midi2.sets[p] > 0 => p = midi2.currentInput
          /\ midi2.sets[p] <= 1
    /\ lastMidi2Op.kind = "noteon" => lastMidi2Op.handled <= 1

\* C16: whenever currentSource is 'none' and no camera change is in
\* progress, no camera stream is live and the renderer has no video texture.
C16_NoneMeansNoVideo ==
    (video.currentSource = "none" /\ pending = {} /\ catching = {})
        => (video.live = {} /\ rendererTexture = 0 /\ ~u_hasVideo)

\* C17: under any interleaving of source changes at most one camera stream
\* is live: every stream getUserMedia returned is the manager's current
\* stream and feeds the current video element, or it is stopped.
C17_OneLiveStream ==
    /\ Cardinality(video.live) <= 1
    /\ \A s \in video.live :
          /\ s = video.stream
          /\ video.videoElement # 0
          /\ video.elements[video.videoElement].srcObject = s

\* C18: when the renderer reports u_hasVideo, its texture is the manager's
\* current texture and has not been disposed.
C18_RendererTextureCurrent ==
    u_hasVideo => (rendererTexture = video.videoTexture
                   /\ rendererTexture \notin video.disposed)

====
